---- MODULE Spec2Model ----
(***************************************************************************)
(* The Selector Search plugin of LibreCrawl                                *)
(* (web/static/plugins/selector-search.js) as a state machine.             *)
(*                                                                         *)
(* JavaScript runs one task at a time: an event handler or the             *)
(* continuation of an awaited network response runs, together with every   *)
(* promise reaction it schedules, to completion before the next event is   *)
(* handled.  One action below is therefore one such task: a user event, or *)
(* the arrival of one network response followed by all the code that       *)
(* resumes after it up to the next pending network request.  The two       *)
(* awaits of one request (fetch, then response.json()) are one arrival.    *)
(*                                                                         *)
(* Texts (the typed selector, element names) are sequences of one-character*)
(* strings; a URL is the position of its page in the crawl inventory.      *)
(***************************************************************************)
EXTENDS Integers, Sequences, FiniteSets, TLC

\* ------------------------------------------------------------------ bounds
MaxPages == 3
MaxCalls == 2
MaxActivations == 1
MaxUpdates == 1
MaxFairPages == 2
MaxElems == 2
MaxExtra == 1
MaxEligible == 2

\* ------------------------------------------------------- program constants
batchSize == 5

VARIABLES searchState, container, dom, activating, activations, crawl, runs, call,
          update

vars == <<searchState, container, dom, activating, activations, crawl, runs, call,
          update>>

\* ------------------------------------------------------------------ values
NoType == <<"undefined">>
Null == "null"
\* The html field of a /api/fetch_html body: missing (null or ""), markup the
\* parser gives up on, or markup, kept as the list of its elements' names.
NoHtml == [present |-> FALSE, wellFormed |-> TRUE, elements |-> <<>>]
Garbage == [present |-> TRUE, wellFormed |-> FALSE, elements |-> <<>>]
Markup(elements) == [present |-> TRUE, wellFormed |-> TRUE, elements |-> elements]
NoProgress == <<>>

HtmlType == <<"text/html", "charset=utf-8">>

HtmlPage == [status_code |-> 200, content_type |-> HtmlType]
MissingPage == [status_code |-> 404, content_type |-> <<"text/html">>]
ImagePage == [status_code |-> 200, content_type |-> <<"image/png">>]
UntypedPage == [status_code |-> 200, content_type |-> NoType]

PageKinds == {HtmlPage, MissingPage, ImagePage, UntypedPage}
BatchPageKinds == {HtmlPage, MissingPage}

\* What the user can have typed into #selector-input when a search is triggered.
TypedTexts ==
    { <<>>, <<" ">>, <<" ", "a", " ">>, <<"a", "[">> }

Tags == { <<"a">>, <<"b">> }
Docs == { Markup(es) : es \in UNION { [1..n -> Tags] : n \in 0..MaxElems } }

\* What /api/fetch_html can answer: the request or its JSON body fails, or a body
\* {success, html} arrives.
Responses ==
    { [kind |-> "throw", success |-> FALSE, html |-> NoHtml] }
    \cup { [kind |-> "json", success |-> FALSE, html |-> NoHtml] }
    \cup { [kind |-> "json", success |-> TRUE, html |-> h] : h \in Docs \cup {NoHtml, Garbage} }

\* ----------------------------------------------------------- pure helpers
RECURSIVE TrimStart(_)
TrimStart(s) ==
    IF s # <<>> /\ Head(s) = " " THEN TrimStart(Tail(s)) ELSE s

RECURSIVE TrimEnd(_)
TrimEnd(s) ==
    IF s # <<>> /\ s[Len(s)] = " " THEN TrimEnd(SubSeq(s, 1, Len(s) - 1)) ELSE s

\* A validation that forgets to trim.
Trim_Untrimmed(s) == s

Trim(s) == TrimEnd(TrimStart(s))

\* contentType.includes('text/html') on (urlData.content_type || '')
ContentTypeOf(urlData) ==
    IF urlData.content_type = NoType THEN <<>> ELSE urlData.content_type

Includes(ct, part) == \E k \in 1..Len(ct) : ct[k] = part

PassesStatus(urlData) == urlData.status_code = 200

\* A filter that lets every content type through.
PassesContentType_Any(urlData) == TRUE

PassesContentType(urlData) == Includes(ContentTypeOf(urlData), "text/html")

Eligible(urlData) == PassesStatus(urlData) /\ PassesContentType(urlData)

\* doc.querySelectorAll(selector): a selector with an unterminated "[" is a syntax
\* error; a valid one here is a type selector and matches the elements of that name.
ValidSelector(selector) ==
    selector # <<>> /\ \A k \in 1..Len(selector) : selector[k] # "["

querySelectorAll(doc, selector) ==
    IF ValidSelector(selector)
    THEN [threw |-> FALSE, length |-> Cardinality({k \in 1..Len(doc) : doc[k] = selector})]
    ELSE [threw |-> TRUE, length |-> 0]

\* The inner try of countSelectorMatches: the count, or the Error
\* "Invalid CSS selector: ..." thrown from the inner catch.
InnerQuery(doc, selector) ==
    LET elements == querySelectorAll(doc, selector)
    IN  IF elements.threw
        THEN [threw |-> TRUE, value |-> 0]
        ELSE [threw |-> FALSE, value |-> elements.length]

\* parser.parseFromString followed by the inner try; the outer catch returns 0 for
\* whatever was thrown inside the outer try.
countSelectorMatches(html, selector) ==
    LET attempt == IF ~html.wellFormed
                   THEN [threw |-> TRUE, value |-> 0]
                   ELSE InnerQuery(html.elements, selector)
    IN  IF attempt.threw THEN 0 ELSE attempt.value

\* results.sort((a, b) => b.count - a.count): a stable sort, descending by count.
RECURSIVE InsertByCount(_, _)
InsertByCount(sorted, e) ==
    IF sorted = <<>> THEN <<e>>
    ELSE IF Head(sorted).count >= e.count
         THEN <<Head(sorted)>> \o InsertByCount(Tail(sorted), e)
         ELSE <<e>> \o sorted

RECURSIVE SortByCount(_)
SortByCount(results) ==
    IF results = <<>> THEN <<>>
    ELSE InsertByCount(SortByCount(SubSeq(results, 1, Len(results) - 1)),
                       results[Len(results)])

\* Math.round((processed / totalUrls) * 100)
Progress(processed, totalUrls) == (200 * processed + totalUrls) \div (2 * totalUrls)

\* ------------------------------------------------------------------- state
\* onLoad: the session object.
InitialSearchState ==
    [selector |-> <<>>, isSearching |-> FALSE, results |-> <<>>, error |-> Null]

\* What render leaves in the container: the empty state, or the form with the input
\* and the button disabled while searchState.isSearching; a fresh button shows no
\* percentage.
RenderDom(hasUrls, isSearching) ==
    IF hasUrls
    THEN [view |-> "form", disabled |-> isSearching, progress |-> NoProgress]
    ELSE [view |-> "empty", disabled |-> FALSE, progress |-> NoProgress]

\* renderResults: the number of pages and the total the header reports,
\* results.reduce((sum, r) => sum + r.count, 0).
RECURSIVE ReduceCounts(_, _)
ReduceCounts(sum, results) ==
    IF results = <<>> THEN sum
    ELSE ReduceCounts(sum + Head(results).count, Tail(results))

\* A header that reports the number of pages as the total.
renderResults_CountsPages(results) ==
    [pages |-> Len(results), totalMatches |-> Len(results)]

renderResults(results) ==
    [pages |-> Len(results), totalMatches |-> ReduceCounts(0, results)]

\* render for the session st: the form as above, with the results table and its
\* header when there are results.
Render(hasUrls, st) ==
    RenderDom(hasUrls, st.isSearching)
    @@ [shown |-> IF hasUrls /\ Len(st.results) > 0
                  THEN <<renderResults(st.results)>>
                  ELSE <<>>]

\* The page before the first render.
NoDom == [view |-> "none", disabled |-> FALSE, progress |-> NoProgress, shown |-> <<>>]

Inventories(kinds, n) == [1..n -> kinds]

EligibleCount(urls) == Cardinality({p \in 1..Len(urls) : Eligible(urls[p])})

\* The locals of one performSearch invocation that passed validation; outcome is
\* the history of what each page's fetch delivered in this run.
NewRun(selector) ==
    [pc |-> "inventory", selector |-> selector, i |-> 0, pending |-> {},
     results |-> <<>>, processed |-> 0,
     outcome |-> [p \in 1..Len(crawl) |-> [state |-> "none", count |-> 0]]]

Init ==
    /\ searchState = InitialSearchState
    /\ container = FALSE
    /\ dom = NoDom
    /\ activating = FALSE
    /\ activations = 0
    /\ crawl \in UNION { Inventories(PageKinds, n) : n \in 0..MaxPages }
    /\ runs = <<>>
    /\ call = [n |-> 0, typed |-> <<>>]
    /\ update = [n |-> 0, active |-> FALSE]

\* ------------------------------------------------------- onTabActivate
OnTabActivate(hostHasUrls) ==
    /\ ~activating
    /\ activations < MaxActivations
    /\ activations' = activations + 1
    /\ container' = TRUE
    /\ IF hostHasUrls
       THEN /\ dom' = Render(TRUE, searchState)
            /\ activating' = FALSE
       ELSE /\ dom' = dom
            /\ activating' = TRUE
    /\ UNCHANGED <<searchState, crawl, runs, call, update>>

\* The /api/crawl_status answer to onTabActivate arrives (or fails, which is
\* caught); render follows with whatever data there is.
ActivateSettle(ok) ==
    /\ activating
    /\ activating' = FALSE
    /\ dom' = Render(ok /\ Len(crawl) > 0, searchState)
    /\ UNCHANGED <<searchState, container, activations, crawl, runs, call, update>>

\* ------------------------------------------------------- performSearch
\* Lines 139-150: validation, then the crawl-inventory request is issued.
performSearch(typed) ==
    /\ call.n < MaxCalls
    /\ dom.view = "form"
    /\ call' = [n |-> call.n + 1, typed |-> typed]
    /\ LET selector == Trim(typed)
       IN  IF selector = <<>>
           THEN runs' = runs
           ELSE runs' = Append(runs, NewRun(selector))
    /\ UNCHANGED <<searchState, container, dom, activating, activations, crawl, update>>

\* The keypress listener of the input: Enter while not searching.
PressEnter(typed) ==
    /\ dom.view = "form"
    /\ ~dom.disabled
    /\ ~searchState.isSearching
    /\ performSearch(typed)

\* The onclick of #search-btn; a disabled button does not fire it.
ClickSearch(typed) ==
    /\ dom.view = "form"
    /\ ~dom.disabled
    /\ performSearch(typed)

\* A slice that stops one page short.
BatchOf_OffByOne(i) == {p \in 1..Len(crawl) : i < p /\ p < i + batchSize}

\* batch = data.urls.slice(i, i + batchSize), as positions in the inventory.
BatchOf(i) == {p \in 1..Len(crawl) : i < p /\ p <= i + batchSize}

\* The synchronous part of one per-page task: how often it increments processed
\* before returning without a fetch (the early return's increment and the
\* finally's), or 0 when it goes on to fetch.
EarlyIncrements(urlData) ==
    IF ~PassesStatus(urlData) THEN 1 + 1
    ELSE IF ~PassesContentType(urlData) THEN 1 + 1
    ELSE 0

RECURSIVE SumEarly(_)
SumEarly(pages) ==
    IF pages = {} THEN 0
    ELSE LET p == CHOOSE q \in pages : TRUE
         IN  EarlyIncrements(crawl[p]) + SumEarly(pages \ {p})

\* A loop that does not wait for a batch: every remaining fetch is issued at once.
StartBatch_AllAtOnce(run) ==
    [run EXCEPT !.pending = {p \in 1..Len(crawl) : p > run.i /\ Eligible(crawl[p])},
                !.processed = @ + SumEarly(BatchOf(run.i))]

\* batch.map(async ...) up to each task's first await: the eligible pages' fetches
\* are issued, the other tasks have already returned.
StartBatch(run) ==
    [run EXCEPT !.pending = {p \in BatchOf(run.i) : Eligible(crawl[p])},
                !.processed = @ + SumEarly(BatchOf(run.i))]

\* The for loop from the top of an iteration until a batch has a pending fetch or
\* the inventory is exhausted; the progress text is rewritten after every batch
\* when the button exists.
RECURSIVE Loop(_, _, _)
Loop(run, progress, hasBtn) ==
    IF run.i >= Len(crawl)
    THEN [run |-> [run EXCEPT !.pc = "sort"], progress |-> progress]
    ELSE LET started == StartBatch(run)
         IN  IF started.pending # {}
             THEN [run |-> [started EXCEPT !.pc = "batch"], progress |-> progress]
             ELSE Loop([started EXCEPT !.i = @ + batchSize],
                       IF hasBtn THEN <<Progress(started.processed, Len(crawl))>>
                       ELSE progress,
                       hasBtn)

\* A completion that stores the results but leaves isSearching set.
Resume_StaysSearching(r, run, st, d) ==
    LET out == Loop(run, d.progress, container /\ d.view = "form")
    IN  IF out.run.pc = "sort"
        THEN LET sorted == SortByCount(out.run.results)
             IN  /\ runs' = [runs EXCEPT ![r] = [out.run EXCEPT !.pc = "Completed",
                                                              !.results = sorted]]
                 /\ searchState' = [st EXCEPT !.results = sorted]
                 /\ dom' = Render(TRUE, [st EXCEPT !.results = sorted])
        ELSE /\ runs' = [runs EXCEPT ![r] = out.run]
             /\ searchState' = st
             /\ dom' = [d EXCEPT !.progress = out.progress]

\* The code that runs from the top of a loop iteration, given the session st and
\* the page d as this task has left them so far: either the next fetches are
\* pending, or the run sorts, stores its results and renders (lines 232-245).
Resume(r, run, st, d) ==
    LET out == Loop(run, d.progress, container /\ d.view = "form")
    IN  IF out.run.pc = "sort"
        THEN LET sorted == SortByCount(out.run.results)
             IN  /\ runs' = [runs EXCEPT ![r] = [out.run EXCEPT !.pc = "Completed",
                                                              !.results = sorted]]
                 /\ searchState' = [st EXCEPT !.results = sorted, !.isSearching = FALSE]
                 /\ dom' = Render(TRUE, [st EXCEPT !.results = sorted,
                                                   !.isSearching = FALSE])
        ELSE /\ runs' = [runs EXCEPT ![r] = out.run]
             /\ searchState' = st
             /\ dom' = [d EXCEPT !.progress = out.progress]

\* Lines 150-176: the inventory arrives; an empty one ends the call, otherwise the
\* session is reset to searching, the form is rendered and the first batch starts.
InventorySettle(r) ==
    /\ runs[r].pc = "inventory"
    /\ IF Len(crawl) = 0
       THEN /\ runs' = [runs EXCEPT ![r].pc = "NoPages"]
            /\ UNCHANGED <<searchState, dom>>
       ELSE LET started == [selector |-> runs[r].selector, isSearching |-> TRUE,
                            error |-> Null, results |-> <<>>]
            IN  Resume(r, runs[r], started, Render(TRUE, started))
    /\ UNCHANGED <<container, activating, activations, crawl, call, update>>

\* The inventory request or its body fails: line 150/151 throws outside the try,
\* the call ends with the exception and nothing else happens.
InventoryFail(r) ==
    /\ runs[r].pc = "inventory"
    /\ runs' = [runs EXCEPT ![r].pc = "Escaped"]
    /\ UNCHANGED <<searchState, container, dom, activating, activations, crawl, call,
                   update>>

\* The history entry for one answer: the page failed (the request or its body
\* threw, success was false or there was no html), or markup was fetched, and then
\* how many of its elements the selector names.
PageOutcome(resp, selector) ==
    IF resp.kind = "throw" \/ ~resp.success \/ ~resp.html.present
    THEN [state |-> "failed", count |-> 0]
    ELSE [state |-> "fetched",
          count |-> Cardinality({k \in 1..Len(resp.html.elements) :
                                    resp.html.elements[k] = selector})]

\* A per-page task without its own catch: a thrown error rejects Promise.all and
\* the partial results are lost.
PageTask_NoCatch(results, p, resp, selector) ==
    IF resp.kind = "throw"
    THEN <<>>
    ELSE IF resp.success /\ resp.html.present /\ countSelectorMatches(resp.html, selector) > 0
         THEN Append(results, [url |-> p, count |-> countSelectorMatches(resp.html, selector)])
         ELSE results

\* A per-page task without the count > 0 guard: every fetched page is pushed.
PageTask_PushZero(results, p, resp, selector) ==
    IF resp.kind = "throw"
    THEN results
    ELSE IF resp.success /\ resp.html.present
         THEN Append(results, [url |-> p, count |-> countSelectorMatches(resp.html, selector)])
         ELSE results

\* Lines 200-216 of the per-page task for page p: the results array after the
\* answer resp.  A thrown error lands in the task's own catch, which only logs.
PageTask(results, p, resp, selector) ==
    IF resp.kind = "throw"
    THEN results
    ELSE IF resp.success /\ resp.html.present
         THEN LET count == countSelectorMatches(resp.html, selector)
              IN  IF count > 0
                  THEN Append(results, [url |-> p, count |-> count])
                  ELSE results
         ELSE results

\* Lines 200-219 for page p of run r, then, when p was the last of its batch, the
\* progress update and the rest of the loop.
FetchSettle(r, p, resp) ==
    /\ runs[r].pc = "batch"
    /\ p \in runs[r].pending
    /\ LET run == runs[r]
           after == [run EXCEPT !.results = PageTask(run.results, p, resp, run.selector),
                                !.processed = @ + 1,
                                !.pending = @ \ {p},
                                !.outcome[p] = PageOutcome(resp, run.selector)]
       IN  IF after.pending # {}
           THEN /\ runs' = [runs EXCEPT ![r] = after]
                /\ UNCHANGED <<searchState, dom>>
           ELSE LET hasBtn == container /\ dom.view = "form"
                    shown == IF hasBtn
                             THEN [dom EXCEPT !.progress =
                                       <<Progress(after.processed, Len(crawl))>>]
                             ELSE dom
                IN  Resume(r, [after EXCEPT !.i = @ + batchSize], searchState, shown)
    /\ UNCHANGED <<container, activating, activations, crawl, call, update>>

\* A data update that renders whenever it is delivered.
OnDataUpdate_Always(isActive, hasUrls) ==
    /\ update.n < MaxUpdates
    /\ update' = [n |-> update.n + 1, active |-> isActive]
    /\ dom' = Render(hasUrls, searchState)
    /\ UNCHANGED <<searchState, container, activating, activations, crawl, runs, call>>

\* onDataUpdate(data): the host's isActive flag and this.container decide, with
\* the session's selector and results, whether the data is rendered.
OnDataUpdate(isActive, hasUrls) ==
    /\ update.n < MaxUpdates
    /\ update' = [n |-> update.n + 1, active |-> isActive]
    /\ IF isActive /\ container
       THEN IF searchState.selector # <<>> /\ Len(searchState.results) > 0
            THEN dom' = Render(hasUrls, searchState)
            ELSE dom' = dom
       ELSE dom' = dom
    /\ UNCHANGED <<searchState, container, activating, activations, crawl, runs, call>>

Next ==
    \/ \E h \in BOOLEAN : OnTabActivate(h)
    \/ \E a, h \in BOOLEAN : OnDataUpdate(a, h)
    \/ \E ok \in BOOLEAN : ActivateSettle(ok)
    \/ \E t \in TypedTexts : PressEnter(t)
    \/ \E t \in TypedTexts : ClickSearch(t)
    \/ \E r \in 1..Len(runs) : InventorySettle(r)
    \/ \E r \in 1..Len(runs) : InventoryFail(r)
    \/ \E r \in 1..Len(runs) : \E p \in runs[r].pending : \E resp \in Responses :
           FetchSettle(r, p, resp)

Spec == Init /\ [][Next]_vars

\* Some issued request settles: the inventory request of a call or one of its
\* page fetches.  The event loop runs the continuation of a settled request, so
\* when requests settle these steps are taken.
Settle ==
    \E r \in 1..Len(runs) :
        \/ InventorySettle(r)
        \/ InventoryFail(r)
        \/ \E p \in runs[r].pending : \E resp \in Responses : FetchSettle(r, p, resp)

\* The states after construction with a non-empty inventory of pages that are
\* fetched or skipped.
InitFair ==
    /\ searchState = InitialSearchState
    /\ container = FALSE
    /\ dom = NoDom
    /\ activating = FALSE
    /\ activations = 0
    /\ crawl \in UNION { Inventories(BatchPageKinds, n) : n \in 1..MaxFairPages }
    /\ runs = <<>>
    /\ call = [n |-> 0, typed |-> <<>>]
    /\ update = [n |-> 0, active |-> FALSE]

FairSpec == InitFair /\ [][Next]_vars /\ WF_vars(Settle)

\* Inventories longer than one batch, with few enough eligible pages to explore
\* every interleaving of two calls.
InitBatch ==
    /\ searchState = InitialSearchState
    /\ container = FALSE
    /\ dom = NoDom
    /\ activating = FALSE
    /\ activations = 0
    /\ crawl \in { urls \in UNION { Inventories(BatchPageKinds, n) :
                                     n \in (batchSize + 1)..(batchSize + MaxExtra) } :
                   EligibleCount(urls) <= MaxEligible }
    /\ runs = <<>>
    /\ call = [n |-> 0, typed |-> <<>>]
    /\ update = [n |-> 0, active |-> FALSE]

SpecBatch == InitBatch /\ [][Next]_vars

\* The run over twelve eligible HTML pages: one search for "a"; the fetch of page
\* 7 fails in one of the three ways a fetch can fail, every other page answers
\* with markup holding three "a" elements.
InitScenario ==
    /\ searchState = InitialSearchState
    /\ container = FALSE
    /\ dom = NoDom
    /\ activating = FALSE
    /\ activations = 0
    /\ crawl = [p \in 1..12 |-> HtmlPage]
    /\ runs = <<>>
    /\ call = [n |-> 0, typed |-> <<>>]
    /\ update = [n |-> 0, active |-> FALSE]

ScenarioResponses(p) ==
    IF p = 7
    THEN { resp \in Responses : resp.kind = "throw" \/ ~resp.success \/ ~resp.html.present }
    ELSE { [kind |-> "json", success |-> TRUE, html |-> Markup(<< <<"a">>, <<"a">>, <<"a">> >>)] }

NextScenario ==
    \/ \E h \in BOOLEAN : OnTabActivate(h)
    \/ \E a, h \in BOOLEAN : OnDataUpdate(a, h)
    \/ \E ok \in BOOLEAN : ActivateSettle(ok)
    \/ call.n = 0 /\ PressEnter(<<" ", "a", " ">>)
    \/ call.n = 0 /\ ClickSearch(<<" ", "a", " ">>)
    \/ \E r \in 1..Len(runs) : InventorySettle(r)
    \/ \E r \in 1..Len(runs) : \E p \in runs[r].pending :
           \E resp \in ScenarioResponses(p) : FetchSettle(r, p, resp)

SpecScenario == InitScenario /\ [][NextScenario]_vars

\* ------------------------------------------------------------------ claims
RunIds == 1..Len(runs)

\* A call that passed validation and has neither completed nor ended otherwise.
InProgress(r) == runs[r].pc \in {"inventory", "batch"}

Urls(results) == {results[k].url : k \in 1..Len(results)}

Entries(results) == {results[k] : k \in 1..Len(results)}

RECURSIVE Outstanding(_)
Outstanding(n) ==
    IF n = 0 THEN 0 ELSE Cardinality(runs[n].pending) + Outstanding(n - 1)

\* C1: at most one performSearch run is in progress at any time, whatever the
\* sequence of Enter-key and button triggers.
C1_AtMostOneRun == Cardinality({r \in RunIds : InProgress(r)}) <= 1

\* C2: a run with a syntactically invalid selector in which some page's markup was
\* fetched never reaches Completed: it ends Failed with the selector error.
C2_InvalidSelectorFails ==
    \A r \in RunIds :
        ( /\ ~ValidSelector(runs[r].selector)
          /\ \E p \in 1..Len(crawl) : runs[r].outcome[p].state = "fetched" )
        => ( /\ runs[r].pc # "Completed"
             /\ (~InProgress(r) => searchState.error # Null) )

\* C3: per-page failures never abort a run with a valid selector: while it runs
\* and when it has completed, its results hold exactly the pages whose markup was
\* fetched with at least one match, each with its count, and no failed page; a
\* completed run has an answer for every eligible page.
C3_PageFailuresIsolated ==
    \A r \in RunIds :
        (ValidSelector(runs[r].selector) /\ runs[r].pc \in {"batch", "Completed"})
        => /\ Entries(runs[r].results) =
                  { [url |-> p, count |-> runs[r].outcome[p].count] :
                      p \in { q \in 1..Len(crawl) :
                                /\ runs[r].outcome[q].state = "fetched"
                                /\ runs[r].outcome[q].count > 0 } }
           /\ Len(runs[r].results) = Cardinality(Urls(runs[r].results))
           /\ \A p \in 1..Len(crawl) :
                  runs[r].outcome[p].state = "failed" => p \notin Urls(runs[r].results)
           /\ runs[r].pc = "Completed" =>
                  \A p \in 1..Len(crawl) :
                      (crawl[p].status_code = 200 /\ crawl[p].content_type = HtmlType)
                      => runs[r].outcome[p].state # "none"

C3_Witness ==
    \E r \in RunIds :
        /\ ValidSelector(runs[r].selector)
        /\ runs[r].pc = "Completed"
        /\ \E p \in 1..Len(crawl) : runs[r].outcome[p].state = "failed"
        /\ \E p \in 1..Len(crawl) : p \in Urls(runs[r].results) /\ p \in Urls(searchState.results)

\* C4: a completed run over an inventory with at least one eligible page has
\* counted exactly as many pages as the inventory holds (totalUrls).
C4_ProcessedEqualsTotal ==
    \A r \in RunIds :
        (runs[r].pc = "Completed" /\ EligibleCount(crawl) >= 1)
        => runs[r].processed = Len(crawl)

\* C5: at most batchSize requests to /api/fetch_html are outstanding at any time.
C5_AtMostFiveFetches == Outstanding(Len(runs)) <= batchSize

BatchIndex(p) == (p - 1) \div batchSize

\* C6: within one run no fetch of a later batch is issued while a fetch of an
\* earlier batch is unsettled: a pending page keeps every page of the later
\* batches unfetched, and every eligible page of the earlier batches has settled.
C6_BatchesSequential ==
    \A r \in RunIds : \A q \in runs[r].pending : \A p \in 1..Len(crawl) :
        /\ BatchIndex(p) > BatchIndex(q)
               => (p \notin runs[r].pending /\ runs[r].outcome[p].state = "none")
        /\ (BatchIndex(p) < BatchIndex(q) /\ crawl[p] = HtmlPage)
               => (p \notin runs[r].pending /\ runs[r].outcome[p].state # "none")

C6_Witness ==
    \E r \in RunIds : \E q \in runs[r].pending : \E p \in 1..Len(crawl) :
        /\ BatchIndex(q) = 1
        /\ BatchIndex(p) = 0
        /\ runs[r].outcome[p].state # "none"

\* A page the search must skip: status other than 200, or a content type that is
\* missing or does not contain text/html.
MustSkip(urlData) ==
    \/ urlData.status_code # 200
    \/ urlData.content_type = NoType
    \/ \A k \in 1..Len(urlData.content_type) : urlData.content_type[k] # "text/html"

\* C7: a page with status other than 200 or without an HTML content type is never
\* fetched and never appears in results, in any run.
C7_IneligibleNeverFetched ==
    \A p \in 1..Len(crawl) :
        MustSkip(crawl[p])
        => /\ p \notin Urls(searchState.results)
           /\ \A r \in RunIds :
                  /\ p \notin runs[r].pending
                  /\ runs[r].outcome[p].state = "none"
                  /\ p \notin Urls(runs[r].results)

C7_Witness ==
    /\ \E p \in 1..Len(crawl) : crawl[p].status_code # 200
    /\ \E p \in 1..Len(crawl) : crawl[p].content_type = NoType
    /\ searchState.results # <<>>
    /\ \E r \in RunIds : runs[r].pc = "Completed" /\ runs[r].results # <<>>

\* C8: in the results of a completed run, entries with equal count are in the
\* order of their pages in the inventory.
C8_TiesInInventoryOrder ==
    \A r \in RunIds :
        runs[r].pc = "Completed"
        => \A j, k \in 1..Len(runs[r].results) :
               (j < k /\ runs[r].results[j].count = runs[r].results[k].count)
               => runs[r].results[j].url < runs[r].results[k].url

\* C9: while some run has an unsettled batch, searchState.results is empty.
C9_ResultsOnlyWhenCompleted ==
    (\E r \in RunIds : runs[r].pc = "batch") => searchState.results = <<>>

Blank(typed) == \A k \in 1..Len(typed) : typed[k] = " "

\* C10: a performSearch call with an empty or whitespace-only selector issues no
\* request and leaves searchState and the page as they were.
C10_BlankSelectorRejected ==
    [][ (call'.n # call.n /\ Blank(call'.typed))
        => UNCHANGED <<searchState, runs, activating, dom>> ]_vars

C10_Witness ==
    /\ call.n > 1
    /\ Blank(call.typed)
    /\ Len(call.typed) > 0
    /\ Len(runs) = 1
    /\ searchState.results # <<>>

\* C14: onDataUpdate never re-runs the search: a data update issues no request
\* and leaves the session (selector, isSearching, results, error) unchanged, and
\* it changes the page only when the plugin is active with a container and the
\* session has a non-empty selector and non-empty results.
C14_OnDataUpdateFrame ==
    [][ update' # update
        => /\ UNCHANGED <<searchState, runs, activating, call>>
           /\ dom' # dom => /\ update'.active
                            /\ container
                            /\ searchState.selector # <<>>
                            /\ searchState.results # <<>> ]_vars

C14_Witness ==
    /\ update.n > 0
    /\ update.active
    /\ container
    /\ searchState.selector # <<>>
    /\ searchState.results # <<>>
    /\ dom.view = "empty"

\* C15: every entry of results has count >= 1: a page whose fetched markup holds
\* no match of the selector produces no entry and is no error; the session's error
\* stays unset and a run with such a page that has ended has Completed.
C15_EntriesHaveMatches ==
    /\ \A e \in Entries(searchState.results) : e.count >= 1
    /\ \A r \in RunIds :
           /\ \A e \in Entries(runs[r].results) : e.count >= 1
           /\ \A p \in 1..Len(crawl) :
                  (runs[r].outcome[p].state = "fetched" /\ runs[r].outcome[p].count = 0)
                  => /\ p \notin Urls(runs[r].results)
                     /\ searchState.error = Null
                     /\ ~InProgress(r) => runs[r].pc = "Completed"

C15_Witness ==
    \E r \in RunIds :
        /\ runs[r].pc = "Completed"
        /\ \E p \in 1..Len(crawl) :
               runs[r].outcome[p].state = "fetched" /\ runs[r].outcome[p].count = 0
        /\ searchState.results = runs[r].results
        /\ searchState.results # <<>>

\* C17: countSelectorMatches distinguishes an invalid selector from zero matches:
\* for the selector of any run and any markup it returns 0 only when the markup
\* cannot be parsed, or when the selector is valid and names no element of it;
\* for an invalid selector and parseable markup it never returns 0.
C17_InvalidSelectorDistinguished ==
    \A r \in RunIds : \A h \in Docs \cup {Garbage} :
        countSelectorMatches(h, runs[r].selector) = 0
        => \/ ~h.wellFormed
           \/ /\ ValidSelector(runs[r].selector)
              /\ \A k \in 1..Len(h.elements) : h.elements[k] # runs[r].selector

\* C18: a failure of the crawl-inventory request made by performSearch after
\* validation is caught at the top level: no exception escapes performSearch, and
\* a call whose inventory request failed leaves the session Failed, with
\* searchState.error set and isSearching false.
C18_InventoryFailureCaught ==
    \A r \in RunIds :
        /\ runs[r].pc # "Escaped"
        /\ runs[r].pc = "Failed" => (searchState.error # Null /\ ~searchState.isSearching)

\* C19: in every reachable state the processed counter of a run is at most the
\* number of inventory pages (each page is counted once), and a displayed
\* progress percentage lies within 0..100.
C19_ProcessedBounded ==
    /\ \A r \in RunIds : runs[r].processed <= Len(crawl)
    /\ dom.progress # NoProgress => (0 <= dom.progress[1] /\ dom.progress[1] <= 100)

\* C20: whenever searchState.results is non-empty, every entry of it was computed
\* by a run whose selector is the one stored in searchState.selector.
C20_ResultsMatchSelector ==
    \A e \in Entries(searchState.results) :
        \E r \in RunIds :
            /\ runs[r].selector = searchState.selector
            /\ e \in Entries(runs[r].results)

RECURSIVE SumOfCounts(_, _)
SumOfCounts(results, n) ==
    IF n = 0 THEN 0 ELSE results[n].count + SumOfCounts(results, n - 1)

NonIncreasing(results) ==
    \A j, k \in 1..Len(results) : j < k => results[j].count >= results[k].count

\* C12: when a run has reached Completed its results are sorted non-increasing by
\* count, and so are the session's results; whenever the page shows a results
\* header, the total it reports is the sum of count over the session's results
\* and the number of pages is their number.
C12_SortedAndTotal ==
    /\ \A r \in RunIds : runs[r].pc = "Completed" => NonIncreasing(runs[r].results)
    /\ NonIncreasing(searchState.results)
    /\ dom.shown # <<>>
           => /\ dom.shown[1].totalMatches =
                      SumOfCounts(searchState.results, Len(searchState.results))
              /\ dom.shown[1].pages = Len(searchState.results)
    /\ \A r \in RunIds :
           (runs[r].pc = "Completed" /\ searchState.results = runs[r].results
            /\ runs[r].results # <<>> /\ dom.view = "form")
           => dom.shown # <<>>

C12_Witness ==
    \E r \in RunIds :
        /\ runs[r].pc = "Completed"
        /\ Len(runs[r].results) >= 2
        /\ runs[r].results[1].count > runs[r].results[2].count
        /\ runs[r].results[1].url > runs[r].results[2].url
        /\ searchState.results = runs[r].results
        /\ dom.shown # <<>>
        /\ dom.shown[1].totalMatches > Len(runs[r].results)

\* C16: progress is republished after each page: every step in which the fetch of
\* a page of a run settles increments that run's processed counter by exactly
\* one, and, while the run goes on and the form is on the page, leaves the
\* percentage of the new counter on display before any further page settles.
C16_ProgressAfterEachPage ==
    [][ \A r \in RunIds : \A p \in 1..Len(crawl) :
            (runs[r].outcome[p].state = "none" /\ runs'[r].outcome[p].state # "none")
            => /\ runs'[r].processed = runs[r].processed + 1
               /\ (runs'[r].pc = "batch" /\ container /\ dom'.view = "form")
                      => dom'.progress = <<Progress(runs'[r].processed, Len(crawl))>>
      ]_vars

\* The pages of the twelve-page inventory whose fetch has been issued by run r.
Issued(r) ==
    {p \in 1..Len(crawl) : p \in runs[r].pending \/ runs[r].outcome[p].state # "none"}

\* C13: with an inventory of 12 eligible HTML pages the run works through exactly
\* three sequential batches of 5, 5 and 2 pages: while it fetches, the pages
\* issued so far are the first 5, the first 10 or all 12, and every page before
\* the current batch has settled; when the fetch of page 7 fails and every other
\* page matches 3 times, the run ends Completed with 11 entries of count 3, none
\* for page 7, and the page reports totalMatches 33.
C13_TwelvePageScenario ==
    \A r \in RunIds :
        /\ runs[r].pc = "batch"
               => /\ \/ runs[r].i = 0  /\ Issued(r) = 1..5
                     \/ runs[r].i = 5  /\ Issued(r) = 1..10
                     \/ runs[r].i = 10 /\ Issued(r) = 1..12
                  /\ \A p \in 1..runs[r].i : runs[r].outcome[p].state # "none"
                  /\ \A p \in runs[r].pending : p > runs[r].i
        /\ runs[r].pc = "Completed"
               => /\ Len(runs[r].results) = 11
                  /\ Urls(runs[r].results) = (1..12) \ {7}
                  /\ \A e \in Entries(runs[r].results) : e.count = 3
                  /\ searchState.results = runs[r].results
                  /\ ~searchState.isSearching
                  /\ dom.view = "form"
                         => dom.shown = <<[pages |-> 11, totalMatches |-> 33]>>
        /\ runs[r].pc \in {"inventory", "batch", "Completed"}

C13_Witness ==
    \E r \in RunIds :
        /\ runs[r].pc = "Completed"
        /\ runs[r].outcome[7].state = "failed"
        /\ Len(searchState.results) = 11
        /\ dom.shown # <<>>
        /\ dom.shown[1].totalMatches = 33

\* C11: when every issued request eventually settles, every run that has started
\* fetching pages eventually is Completed with isSearching false, and the
\* session never stays searching forever.
C11_RunsTerminate ==
    /\ \A r \in 1..MaxCalls :
           (r \in RunIds /\ runs[r].pc = "batch")
           ~> (r \in RunIds /\ runs[r].pc = "Completed" /\ ~searchState.isSearching)
    /\ searchState.isSearching ~> ~searchState.isSearching

C11_Witness ==
    \E r \in RunIds :
        /\ runs[r].pc = "Completed"
        /\ ~searchState.isSearching
        /\ \E p \in 1..Len(crawl) : runs[r].outcome[p].state # "none"
        /\ \E q \in RunIds : q # r /\ runs[q].pc = "Completed"

====
